---- MODULE Spec2Model ----
(***************************************************************************)
(* econfig.h: the checked accessor layer over libconfig.                   *)
(*                                                                         *)
(* The state is one process that owns one config_t and calls the checked   *)
(* operations of econfig.h one after the other.  A checked operation       *)
(* either returns to its caller or ends the process (exit, abort, or a     *)
(* fault).  libconfig itself is not part of econfig.h; its primitives are  *)
(* modelled here by what they return on a small settings tree, at the      *)
(* places econfig.h calls them.  Two things econfig.h does not fix are     *)
(* chosen when the process starts and never change: which libconfig is     *)
(* linked (what it answers for the path ".") and whether assert is         *)
(* compiled out (NDEBUG).                                                  *)
(***************************************************************************)
EXTENDS Integers, Sequences

VARIABLES
    doc,        \* the file the config_t was last read from (NoDoc: config_init only)
    dotIsRoot,  \* the linked libconfig resolves the path "." to the root setting
    ndebug,     \* the translation unit was compiled with NDEBUG (assert is a no-op)
    status,     \* "running", or how the process ended
    stderr,     \* the lines written to the standard error stream
    last        \* the last operation: its arguments, the library's answer, what came back

vars == <<doc, dotIsRoot, ndebug, status, stderr, last>>

(***************************************************************************)
(* Bounds of the model.                                                    *)
(***************************************************************************)
MaxIndex == 3

(***************************************************************************)
(* A line on the standard error stream, what one call does to the process  *)
(* (it returns a value, or it ends the process after writing a line or     *)
(* none), and the record of a call.                                        *)
(***************************************************************************)
NULL == 0

\* "error occured in %s: unable to find %s\n"
LookupLine(f, p) == [kind |-> "lookup", file |-> f, line |-> 0, path |-> p]
\* "error occured in %s:%d\n"
SrcLine(f, n) == [kind |-> "srcline", file |-> f, line |-> n, path |-> <<>>]
\* the message of a failed assert in econfig.h
AssertLine(n) == [kind |-> "assert", file |-> "econfig.h", line |-> n, path |-> <<>>]

Return(v) ==
    [st |-> "running", lines |-> <<>>, returned |-> TRUE, ret |-> v,
     getterCalled |-> FALSE, getterArg |-> NULL]
Exit(l) ==
    [st |-> "exit_failure", lines |-> <<l>>, returned |-> FALSE, ret |-> 0,
     getterCalled |-> FALSE, getterArg |-> NULL]
\* assert(e) with e false: the message and abort()
AssertFail(n) ==
    [st |-> "abort", lines |-> <<AssertLine(n)>>, returned |-> FALSE, ret |-> 0,
     getterCalled |-> FALSE, getterArg |-> NULL]
\* a read through a NULL setting that faults
Fault ==
    [st |-> "segv", lines |-> <<>>, returned |-> FALSE, ret |-> 0,
     getterCalled |-> FALSE, getterArg |-> NULL]

\* the record of a call: the operation and its arguments (op .. index), what
\* the library answers to them (present, typeOk, lib) and what the call did
NoOp ==
    [file |-> "", path |-> <<>>, st |-> "running", returned |-> FALSE, ret |-> 0,
     getterCalled |-> FALSE, getterArg |-> NULL,
     op |-> "none", T |-> "", setting |-> NULL, index |-> 0,
     present |-> FALSE, typeOk |-> FALSE, lib |-> 0]

(***************************************************************************)
(* Settings trees.  A setting is a node number; NULL is 0.                 *)
(***************************************************************************)
RootNode == 1
NoDoc == "none"

Leaf(ty, nm, v, ln) == [line |-> ln, type |-> ty, name |-> nm, elems |-> <<>>, ival |-> v]
Aggr(ty, nm, es, ln) == [line |-> ln, type |-> ty, name |-> nm, elems |-> es, ival |-> 0]

\* main.cfg:  a = 5; b = [1, 2, 3]; t = true; g = { k = 7; e = (); }; s = "x";
MainTree ==
    <<Aggr("group", "", <<2, 3, 4, 5, 6>>, 0),
      Leaf("int", "a", 5, 1),
      Aggr("array", "b", <<7, 8, 9>>, 2),
      Leaf("bool", "t", 1, 3),
      Aggr("group", "g", <<10, 11>>, 4),
      Leaf("string", "s", 0, 5),
      Leaf("int", "", 1, 2),
      Leaf("int", "", 2, 2),
      Leaf("int", "", 3, 2),
      Leaf("int", "k", 7, 4),
      Aggr("list", "e", <<>>, 4)>>

\* alt.cfg:  a = true; g = { };
AltTree ==
    <<Aggr("group", "", <<2, 3>>, 0),
      Leaf("bool", "a", 1, 1),
      Aggr("group", "g", <<>>, 2)>>

GoodDocs == {"main.cfg", "alt.cfg"}
BadDocs == {"bad.cfg", "incl.cfg"}
Docs == GoodDocs \cup BadDocs

Tree(d) == IF d = "main.cfg" THEN MainTree ELSE AltTree

Nodes(d) == 1..Len(Tree(d))

\* Path components: a member name or an element index ("[1]").
N(nm) == [name |-> nm, idx |-> -1]
I(i) == [name |-> "", idx |-> i]

\* The path "." : separators only, no component.
Dot == <<>>

\* Paths given from the root of the document
Paths ==
    {<<N("a")>>, <<N("b")>>, <<N("c")>>, <<N("t")>>, <<N("s")>>,
     <<N("g"), N("k")>>, <<N("g"), N("e")>>, <<N("g"), N("x")>>,
     <<N("b"), I(1)>>, <<N("b"), I(5)>>, <<N("a"), N("k")>>, <<N("k")>>}

\* Paths given relative to a setting
RelPaths ==
    {Dot, <<N("a")>>, <<N("k")>>, <<N("x")>>, <<I(1)>>, <<N("g"), N("k")>>}

Names == {"a", "t", "k", "c"}
Types == {"int", "bool"}
Indexes == 0..MaxIndex

(***************************************************************************)
(* libconfig's primitives, as econfig.h calls them.                        *)
(***************************************************************************)
IsAggregate(ty) == ty \in {"group", "array", "list"}

\* config_setting_get_member: the member of a group with that name, or NULL
config_setting_get_member(d, s, nm) ==
    LET t == Tree(d)
        hits == {i \in 1..Len(t[s].elems) : t[t[s].elems[i]].name = nm}
    IN  IF t[s].type # "group" \/ hits = {} THEN NULL
        ELSE t[s].elems[CHOOSE i \in hits : TRUE]

\* config_setting_get_elem: the index-th element of an aggregate, or NULL
config_setting_get_elem(d, s, index) ==
    LET t == Tree(d)
    IN  IF ~IsAggregate(t[s].type) \/ index >= Len(t[s].elems) THEN NULL
        ELSE t[s].elems[index + 1]

\* config_setting_length: the number of elements of an aggregate, 0 for a scalar
config_setting_length(d, s) ==
    LET t == Tree(d)
    IN  IF IsAggregate(t[s].type) THEN Len(t[s].elems) ELSE 0

RECURSIVE Walk(_, _, _)
Walk(d, s, path) ==
    IF path = <<>> \/ s = NULL THEN s
    ELSE LET c == Head(path)
             next == IF c.idx >= 0 THEN config_setting_get_elem(d, s, c.idx)
                     ELSE config_setting_get_member(d, s, c.name)
         IN  Walk(d, next, Tail(path))

\* config_setting_lookup: walks the path's components from the setting.  A path
\* with no component ends where it started: libconfig 1.5 returns that
\* setting, libconfig 1.7 returns NULL ("found == setting").
config_setting_lookup(d, s, path) ==
    IF path = Dot THEN (IF dotIsRoot THEN s ELSE NULL)
    ELSE Walk(d, s, path)

\* config_lookup: config_setting_lookup from the root setting
config_lookup(d, path) == config_setting_lookup(d, RootNode, path)

\* config_setting_get_int / config_setting_get_bool: the value of a setting of
\* that type, 0 for a setting of another type
config_setting_get_T(T, d, s) ==
    IF Tree(d)[s].type = T THEN Tree(d)[s].ival ELSE 0

\* config_lookup_int / config_lookup_bool: CONFIG_FALSE when the path is not
\* found or the setting is of another type; else the value is stored
config_lookup_T(T, d, path) ==
    LET s == config_lookup(d, path)
    IN  IF s = NULL \/ Tree(d)[s].type # T THEN [ok |-> FALSE, value |-> 0]
        ELSE [ok |-> TRUE, value |-> Tree(d)[s].ival]

\* config_setting_lookup_int / _bool: the same on the member called name
config_setting_lookup_T(T, d, s, nm) ==
    LET m == config_setting_get_member(d, s, nm)
    IN  IF m = NULL \/ Tree(d)[m].type # T THEN [ok |-> FALSE, value |-> 0]
        ELSE [ok |-> TRUE, value |-> Tree(d)[m].ival]

config_setting_source_file(d, s) == d
config_setting_source_line(d, s) == Tree(d)[s].line

\* config_read_file, and what config_error_file / config_error_line report
\* after it failed: incl.cfg is well formed up to an @include of part.cfg,
\* whose second line is not.
config_read_file(f) == f \in GoodDocs
config_error_file(f) == IF f = "incl.cfg" THEN "part.cfg" ELSE f
config_error_line(f) == IF f = "incl.cfg" THEN 2 ELSE 3

\* the typed getter applied to what a checked fetch returned
Extract(T, d, o) ==
    IF ~o.returned THEN o
    ELSE IF o.ret = NULL
         THEN [Fault EXCEPT !.getterCalled = TRUE, !.getterArg = NULL]
         ELSE [Return(config_setting_get_T(T, d, o.ret))
                 EXCEPT !.getterCalled = TRUE, !.getterArg = o.ret]

(***************************************************************************)
(* econfig.h.  Each operation is the set of its possible outcomes: one     *)
(* outcome, except where the code reads through a NULL setting.            *)
(***************************************************************************)
econfig_lookup_error(file, path) == Exit(LookupLine(file, path))

econfig_read_error(f) == Exit(SrcLine(config_error_file(f), config_error_line(f)))

econfig_setting_error(d, s) ==
    Exit(SrcLine(config_setting_source_file(d, s), config_setting_source_line(d, s)))

\* econfig_lookup_assert(config_setting_source_file(s_file), path, test) with
\* test false: the macro's file argument is evaluated here, and s_file may be
\* NULL.  Reading NULL->file is undefined: the process faults, or the read
\* yields some pointer and the line is written with it.
LookupMiss(d, s_file, path) ==
    IF s_file = NULL
    THEN {Fault, econfig_lookup_error("<garbage>", path)}
    ELSE {econfig_lookup_error(config_setting_source_file(d, s_file), path)}

econfig_lookup(d, path) ==
    LET s == config_lookup(d, path)
        s_file == config_lookup(d, Dot)
    IN  IF s_file = NULL /\ ~ndebug THEN {AssertFail(101)}
        ELSE IF s = NULL THEN LookupMiss(d, s_file, path)
        ELSE {Return(s)}

\* after econfig_lookup(config, ".") returned s_file in econfig_lookup_value
LookupValueError(d, o, path) ==
    IF ~o.returned THEN o
    ELSE IF o.ret = NULL /\ ~ndebug THEN AssertFail(110)
    ELSE IF o.ret = NULL THEN Fault
    ELSE econfig_lookup_error(config_setting_source_file(d, o.ret), path)

econfig_lookup_value(T, d, path) ==
    LET r == config_lookup_T(T, d, path)
    IN  IF r.ok THEN {Return(r.value)}
        ELSE {LookupValueError(d, o, path) : o \in econfig_lookup(d, Dot)}

econfig_get_value(T, d, path) == {Extract(T, d, o) : o \in econfig_lookup(d, path)}

\* econfig_try_get_value written with the checked lookup
econfig_try_get_value_checked(T, d, path) == econfig_get_value(T, d, path)

econfig_try_get_value(T, d, path) ==
    IF config_lookup(d, path) # NULL
    THEN {[Return(config_setting_get_T(T, d, config_lookup(d, path)))
             EXCEPT !.getterCalled = TRUE, !.getterArg = config_lookup(d, path)]}
    ELSE {Return(0)}

\* econfig_setting_lookup without its econfig_lookup_assert
econfig_setting_lookup_unchecked(d, setting, path) ==
    {Return(config_setting_lookup(d, setting, path))}

econfig_setting_lookup(d, setting, path) ==
    LET s == config_setting_lookup(d, setting, path)
    IN  IF s = NULL
        THEN {econfig_lookup_error(config_setting_source_file(d, setting), path)}
        ELSE {Return(s)}

\* econfig_setting_lookup_value that ignores the library's CONFIG_FALSE
econfig_setting_lookup_value_unchecked(T, d, setting, nm) ==
    {Return(config_setting_lookup_T(T, d, setting, nm).value)}

econfig_setting_lookup_value(T, d, setting, nm) ==
    LET r == config_setting_lookup_T(T, d, setting, nm)
    IN  IF r.ok THEN {Return(r.value)}
        ELSE {econfig_lookup_error(config_setting_source_file(d, setting), <<N(nm)>>)}

\* econfig_setting_get_elem without its econfig_setting_assert
econfig_setting_get_elem_unchecked(d, setting, index) ==
    {Return(config_setting_get_elem(d, setting, index))}

econfig_setting_get_elem(d, setting, index) ==
    LET s == config_setting_get_elem(d, setting, index)
    IN  IF s = NULL THEN {econfig_setting_error(d, setting)} ELSE {Return(s)}

econfig_setting_get_elem_value(T, d, setting, index) ==
    {Extract(T, d, o) : o \in econfig_setting_get_elem(d, setting, index)}

econfig_setting_get_value(T, d, setting, path) ==
    {Extract(T, d, o) : o \in econfig_setting_lookup(d, setting, path)}

\* econfig_setting_length asserting length >= 0
econfig_setting_length_nonneg(d, setting) ==
    LET length == config_setting_length(d, setting)
    IN  IF length >= 0 THEN {Return(length)} ELSE {econfig_setting_error(d, setting)}

econfig_setting_length(d, setting) ==
    LET length == config_setting_length(d, setting)
    IN  IF length > 0 THEN {Return(length)} ELSE {econfig_setting_error(d, setting)}

\* econfig_read_file that writes the line and goes on (no exit)
econfig_read_file_noexit(f) ==
    IF ~config_read_file(f)
    THEN {[Return(0) EXCEPT !.lines = <<SrcLine(config_error_file(f), config_error_line(f))>>]}
    ELSE {Return(0)}

econfig_read_file(f) ==
    IF ~config_read_file(f) THEN {econfig_read_error(f)} ELSE {Return(0)}

(***************************************************************************)
(* The process.                                                            *)
(***************************************************************************)
TypeIs(d, s, T) == s # NULL /\ Tree(d)[s].type = T

Init ==
    /\ doc = NoDoc
    /\ dotIsRoot \in BOOLEAN
    /\ ndebug \in BOOLEAN
    /\ status = "running"
    /\ stderr = <<>>
    /\ last = NoOp

\* One call: the process must be running; the outcome o is what the call did.
Call(call, o) ==
    /\ status = "running"
    /\ status' = o.st
    /\ stderr' = stderr \o o.lines
    /\ last' = [call EXCEPT !.st = o.st, !.returned = o.returned, !.ret = o.ret,
                            !.getterCalled = o.getterCalled, !.getterArg = o.getterArg]
    /\ UNCHANGED <<dotIsRoot, ndebug>>

Loaded == doc \in GoodDocs

ReadFile ==
    \E f \in Docs : \E o \in econfig_read_file(f) :
        /\ Call([NoOp EXCEPT !.op = "read_file", !.file = f,
                             !.present = config_read_file(f)], o)
        /\ doc' = IF config_read_file(f) THEN f ELSE doc

Lookup ==
    \E path \in Paths : \E o \in econfig_lookup(doc, path) :
        /\ Loaded
        /\ Call([NoOp EXCEPT !.op = "lookup", !.path = path,
                             !.present = config_lookup(doc, path) # NULL,
                             !.lib = config_lookup(doc, path)], o)
        /\ UNCHANGED doc

LookupValue ==
    \E T \in Types : \E path \in Paths : \E o \in econfig_lookup_value(T, doc, path) :
        /\ Loaded
        /\ Call([NoOp EXCEPT !.op = "lookup_value", !.T = T, !.path = path,
                             !.present = config_lookup(doc, path) # NULL,
                             !.typeOk = TypeIs(doc, config_lookup(doc, path), T),
                             !.lib = config_lookup_T(T, doc, path).value], o)
        /\ UNCHANGED doc

GetValue ==
    \E T \in Types : \E path \in Paths : \E o \in econfig_get_value(T, doc, path) :
        /\ Loaded
        /\ Call([NoOp EXCEPT !.op = "get_value", !.T = T, !.path = path,
                             !.present = config_lookup(doc, path) # NULL,
                             !.typeOk = TypeIs(doc, config_lookup(doc, path), T),
                             !.lib = config_lookup_T(T, doc, path).value], o)
        /\ UNCHANGED doc

TryGetValue ==
    \E T \in Types : \E path \in Paths : \E o \in econfig_try_get_value(T, doc, path) :
        /\ Loaded
        /\ Call([NoOp EXCEPT !.op = "try_get_value", !.T = T, !.path = path,
                             !.present = config_lookup(doc, path) # NULL,
                             !.typeOk = TypeIs(doc, config_lookup(doc, path), T),
                             !.lib = config_lookup_T(T, doc, path).value], o)
        /\ UNCHANGED doc

SettingLookup ==
    \E s \in Nodes(doc) : \E path \in RelPaths : \E o \in econfig_setting_lookup(doc, s, path) :
        /\ Loaded
        /\ Call([NoOp EXCEPT !.op = "setting_lookup", !.setting = s, !.path = path,
                             !.present = config_setting_lookup(doc, s, path) # NULL,
                             !.lib = config_setting_lookup(doc, s, path)], o)
        /\ UNCHANGED doc

SettingLookupValue ==
    \E T \in Types : \E s \in Nodes(doc) : \E nm \in Names :
      \E o \in econfig_setting_lookup_value(T, doc, s, nm) :
        /\ Loaded
        /\ Call([NoOp EXCEPT !.op = "setting_lookup_value", !.T = T, !.setting = s,
                             !.path = <<N(nm)>>,
                             !.present = config_setting_get_member(doc, s, nm) # NULL,
                             !.typeOk = TypeIs(doc, config_setting_get_member(doc, s, nm), T),
                             !.lib = config_setting_lookup_T(T, doc, s, nm).value], o)
        /\ UNCHANGED doc

SettingGetValue ==
    \E T \in Types : \E s \in Nodes(doc) : \E path \in RelPaths :
      \E o \in econfig_setting_get_value(T, doc, s, path) :
        /\ Loaded
        /\ Call([NoOp EXCEPT !.op = "setting_get_value", !.T = T, !.setting = s,
                             !.path = path,
                             !.present = config_setting_lookup(doc, s, path) # NULL,
                             !.typeOk = TypeIs(doc, config_setting_lookup(doc, s, path), T),
                             !.lib = IF TypeIs(doc, config_setting_lookup(doc, s, path), T)
                                     THEN Tree(doc)[config_setting_lookup(doc, s, path)].ival
                                     ELSE 0], o)
        /\ UNCHANGED doc

SettingGetElem ==
    \E s \in Nodes(doc) : \E index \in Indexes : \E o \in econfig_setting_get_elem(doc, s, index) :
        /\ Loaded
        /\ Call([NoOp EXCEPT !.op = "setting_get_elem", !.setting = s, !.index = index,
                             !.present = config_setting_get_elem(doc, s, index) # NULL,
                             !.lib = config_setting_get_elem(doc, s, index)], o)
        /\ UNCHANGED doc

SettingGetElemValue ==
    \E T \in Types : \E s \in Nodes(doc) : \E index \in Indexes :
      \E o \in econfig_setting_get_elem_value(T, doc, s, index) :
        /\ Loaded
        /\ Call([NoOp EXCEPT !.op = "setting_get_elem_value", !.T = T, !.setting = s,
                             !.index = index,
                             !.present = config_setting_get_elem(doc, s, index) # NULL,
                             !.typeOk = TypeIs(doc, config_setting_get_elem(doc, s, index), T),
                             !.lib = IF TypeIs(doc, config_setting_get_elem(doc, s, index), T)
                                     THEN Tree(doc)[config_setting_get_elem(doc, s, index)].ival
                                     ELSE 0], o)
        /\ UNCHANGED doc

SettingLength ==
    \E s \in Nodes(doc) : \E o \in econfig_setting_length(doc, s) :
        /\ Loaded
        /\ Call([NoOp EXCEPT !.op = "setting_length", !.setting = s,
                             !.present = TRUE,
                             !.lib = config_setting_length(doc, s)], o)
        /\ UNCHANGED doc

Next ==
    \/ ReadFile
    \/ Lookup
    \/ LookupValue
    \/ GetValue
    \/ TryGetValue
    \/ SettingLookup
    \/ SettingLookupValue
    \/ SettingGetValue
    \/ SettingGetElem
    \/ SettingGetElemValue
    \/ SettingLength

Spec == Init /\ [][Next]_vars

(***************************************************************************)
(* The claims.                                                             *)
(***************************************************************************)
Ended == status # "running"
Silent == status = "running" /\ stderr = <<>>
LastNode == Tree(doc)[last.setting]

\* C1: whenever the unchecked lookup finds the path, econfig_lookup and
\* econfig_setting_lookup return exactly that setting, write nothing and leave
\* the process running.
C1_CheckedLookupReturnsFound ==
    (last.op \in {"lookup", "setting_lookup"} /\ last.present) =>
        /\ last.returned
        /\ last.ret = last.lib
        /\ Silent

\* C2: whenever the unchecked lookup does not find the path, econfig_lookup and
\* econfig_setting_lookup do not return: the process exits with a failure status
\* after one line that names the requested path.
C2_CheckedLookupMissExits ==
    (last.op \in {"lookup", "setting_lookup"} /\ ~last.present) =>
        /\ ~last.returned
        /\ status = "exit_failure"
        /\ Len(stderr) = 1
        /\ stderr[1].kind = "lookup"
        /\ stderr[1].path = last.path

\* C3: econfig_try_get_value never ends the process; it returns 0 for an absent
\* path, and for a present path the value of the setting found, which is the
\* value econfig_get_value returns whenever econfig_get_value returns.
C3_TryNeverTerminates ==
    last.op = "try_get_value" =>
        /\ Silent
        /\ last.returned
        /\ ~last.present => last.ret = 0
        /\ last.present =>
              /\ last.ret = last.lib
              /\ \A o \in econfig_get_value(last.T, doc, last.path) :
                    o.returned => o.ret = last.ret

C3_Witness ==
    /\ last.op = "try_get_value"
    /\ last.present
    /\ last.ret = 5
    /\ \E o \in econfig_get_value(last.T, doc, last.path) : o.returned /\ o.ret = 5

\* C4: econfig_read_file ends the process exactly when config_read_file fails:
\* a well-formed document is read silently, a malformed one writes one line with
\* the library's error file and error line and exits with a failure status.
C4_ReadFileExitsIffReadFails ==
    last.op = "read_file" =>
        /\ Ended <=> ~(last.file \in GoodDocs)
        /\ last.file \in GoodDocs => Silent /\ doc = last.file
        /\ last.file \in BadDocs =>
              /\ status = "exit_failure"
              /\ stderr = <<SrcLine(config_error_file(last.file),
                                    config_error_line(last.file))>>

C4_Witness ==
    /\ last.op = "read_file"
    /\ last.file = "incl.cfg"
    /\ status = "exit_failure"
    /\ stderr = <<SrcLine("part.cfg", 2)>>

\* C5: econfig_setting_get_elem returns the unchecked accessor's element when
\* the setting is an aggregate and the index is within its bounds; otherwise the
\* process exits after the line with the setting's source file and line; it
\* never returns NULL.
C5_GetElemChecked ==
    last.op = "setting_get_elem" =>
        LET inBounds == /\ IsAggregate(LastNode.type)
                        /\ last.index < Len(LastNode.elems)
        IN  /\ inBounds => last.returned /\ last.ret = last.lib /\ Silent
            /\ ~inBounds =>
                  /\ ~last.returned
                  /\ status = "exit_failure"
                  /\ stderr = <<SrcLine(doc, LastNode.line)>>
            /\ last.returned => last.ret # NULL

C5_Witness ==
    /\ last.op = "setting_get_elem"
    /\ LastNode.type = "array"
    /\ last.index >= Len(LastNode.elems)
    /\ status = "exit_failure"

Mismatch == last.present /\ ~last.typeOk

\* C6 as stated: in the four typed retrievals by path, a path that exists but
\* holds a value of another type ends the process like a miss, with the lookup
\* line, instead of returning a value.  (An end through the assertion on "."
\* is C10's matter and is not held against this statement.)
C6_MismatchExitsLikeMiss ==
    (last.op \in {"lookup_value", "setting_lookup_value", "get_value",
                  "setting_get_value"} /\ Mismatch) =>
        /\ ~last.returned
        /\ Ended
        /\ status = "exit_failure" => Len(stderr) = 1 /\ stderr[1].kind = "lookup"

\* C6 amended: on a path that exists with a value of another type,
\* econfig_lookup_value and econfig_setting_lookup_value never return (the
\* latter always exits with the lookup line naming the requested name, the
\* former does whenever the lookup of "." finds the root), while
\* econfig_get_value and econfig_setting_get_value do not detect the mismatch:
\* whenever their checked lookup returns they return the getter's 0 and the
\* process keeps running.
C6_MismatchByOperation ==
    Mismatch =>
        /\ last.op = "setting_lookup_value" =>
              /\ ~last.returned
              /\ status = "exit_failure"
              /\ stderr = <<LookupLine(doc, last.path)>>
        /\ last.op = "lookup_value" =>
              /\ ~last.returned
              /\ Ended
              /\ dotIsRoot => /\ status = "exit_failure"
                              /\ stderr = <<LookupLine(doc, last.path)>>
        /\ last.op = "setting_get_value" =>
              last.returned /\ last.ret = 0 /\ Silent
        /\ last.op = "get_value" =>
              /\ last.returned => last.ret = 0 /\ Silent
              /\ dotIsRoot => last.returned

C6_Witness ==
    /\ Mismatch
    /\ last.op = "get_value"
    /\ last.path = <<N("g"), N("k")>>
    /\ last.T = "bool"
    /\ last.returned
    /\ last.ret = 0
    /\ status = "running"

\* C7: econfig_setting_length returns the library's length exactly when it is
\* positive; for a length of zero (a scalar, an empty list, array or group) the
\* process exits after the line with the setting's source file and line, so a
\* returned length is greater than 0.
C7_LengthPositive ==
    last.op = "setting_length" =>
        LET length == IF IsAggregate(LastNode.type) THEN Len(LastNode.elems) ELSE 0
        IN  /\ length > 0 => last.returned /\ last.ret = length /\ Silent
            /\ length <= 0 =>
                  /\ ~last.returned
                  /\ status = "exit_failure"
                  /\ stderr = <<SrcLine(doc, LastNode.line)>>
            /\ last.returned => last.ret > 0

C7_Witness ==
    /\ last.op = "setting_length"
    /\ LastNode.type \in {"list", "group"}
    /\ LastNode.elems = <<>>
    /\ status = "exit_failure"

CheckedOps ==
    {"read_file", "lookup", "lookup_value", "get_value", "setting_lookup",
     "setting_lookup_value", "setting_get_value", "setting_get_elem",
     "setting_get_elem_value", "setting_length"}

\* C8: a process that ended wrote exactly one line and its last operation did
\* not return; a process that is running wrote nothing and its last checked
\* operation returned a value that is no error indicator (a setting is not NULL,
\* a length is positive).
C8_FailFast ==
    /\ Ended => Len(stderr) = 1 /\ ~last.returned
    /\ ~Ended =>
          /\ stderr = <<>>
          /\ last.op \in CheckedOps =>
                /\ last.returned
                /\ last.op \in {"lookup", "setting_lookup", "setting_get_elem"} =>
                      last.ret # NULL
                /\ last.op = "setting_length" => last.ret > 0

\* C9: in econfig_get_value, econfig_setting_get_value and
\* econfig_setting_get_elem_value the typed getter is applied only to the
\* non-NULL setting the checked fetch returned, and is not called at all when
\* the path is missing or the index is out of range.
C9_CheckPrecedesExtraction ==
    last.op \in {"get_value", "setting_get_value", "setting_get_elem_value"} =>
        /\ last.getterCalled => /\ last.getterArg # NULL
                                /\ last.present
                                /\ last.returned
        /\ ~last.present => ~last.getterCalled /\ ~last.returned

C9_Witness ==
    /\ last.op = "setting_get_elem_value"
    /\ ~last.present
    /\ ~last.getterCalled
    /\ status = "exit_failure"

\* C10: the assertion on the lookup of "." never fails, so no document-level
\* lookup ends through it, and a miss of econfig_lookup always ends through the
\* lookup line and exit(EXIT_FAILURE).
C10_RootAssertionHolds ==
    /\ last.op \in {"lookup", "lookup_value", "get_value"} => status # "abort"
    /\ (last.op = "lookup" /\ ~last.present) =>
          /\ status = "exit_failure"
          /\ stderr = <<LookupLine(doc, last.path)>>

\* With a libconfig that resolves "." to the root setting, the statements of
\* C1, C2, C8 and C10 hold of econfig.h: each of them fails only through the
\* lookup of "." returning NULL.
ContractWhenDotIsRoot ==
    dotIsRoot =>
        /\ C1_CheckedLookupReturnsFound
        /\ C2_CheckedLookupMissExits
        /\ C8_FailFast
        /\ C10_RootAssertionHolds

\* Once the process has ended, no operation executes and nothing more is written.
EndedIsFinal == [][Ended => UNCHANGED vars]_vars

====
